---- MODULE Spec2Model ----
(***************************************************************************)
(* Column Parity Mixers (cypm.py): the CPM class over GF(2), its           *)
(* constructor, the column-parity utilities, evaluation on state matrices, *)
(* composition, order, inverse and the classification queries.             *)
(*                                                                         *)
(* A GF(2) matrix is a sequence of rows, each a sequence of bits 0/1.      *)
(* Python indices are 0-based; a column index j of the code is the         *)
(* position j+1 of a row here, and the lists of indices the code returns   *)
(* are kept 0-based.                                                       *)
(***************************************************************************)
EXTENDS Integers, Sequences, FiniteSets, TLC

VARIABLES theta, call, arg, ret, heap, callerZ, self

vars == <<theta, call, arg, ret, heap, callerZ, self>>

\* Bounds of the model.
MaxN == 2        \* columns of a CPM: Z is n x n, 1 <= n <= MaxN
MaxM == 3        \* rows m of a CPM in the algebra of a single CPM
MaxRows == 2     \* rows m of a CPM where all its m x n states are enumerated
MaxStateRows == 3 \* rows of a state matrix given to a composition
MaxCols == 3     \* columns of the matrices given to the column utilities
MaxE == 3        \* exponents e of power(e)
MaxEntry == 2    \* integer entries 0..MaxEntry of a caller's list or integer matrix

\* A raised exception is the record [raised |-> its class]; a returned integer
\* is [val |-> k] where the call may raise instead (order), so that the two
\* outcomes can be told apart.
None == [none |-> TRUE]
ValueError == [raised |-> "ValueError"]
TypeError == [raised |-> "TypeError"]
ArithmeticError == [raised |-> "ArithmeticError"]
ZeroDivisionError == [raised |-> "ZeroDivisionError"]
Raised(x) == "raised" \in DOMAIN x
Returned(k) == [val |-> k]

----------------------------------------------------------------------------
\* GF(2) and the matrix operations of the library the code calls.

GF2 == {0, 1}

\* All r x c matrices over GF(2).
MatrixSpace(r, c) == [1..r -> [1..c -> GF2]]

nrowsOf(M) == Len(M)
ncolsOf(M) == Len(M[1])

is_even(k) == k % 2 = 0
is_odd(k) == k % 2 = 1

identity_matrix(n) == [i \in 1..n |-> [j \in 1..n |-> IF i = j THEN 1 ELSE 0]]

VecAdd(u, v) == [j \in 1..Len(u) |-> (u[j] + v[j]) % 2]

MatAdd(X, Y) == [i \in 1..Len(X) |-> VecAdd(X[i], Y[i])]

\* X - Y; over GF(2) the difference is reduced into {0,1}.
MatSub(X, Y) == [i \in 1..Len(X) |-> [j \in 1..Len(X[i]) |-> (X[i][j] - Y[i][j]) % 2]]

RECURSIVE Dot(_, _, _, _)
Dot(u, M, j, k) ==
    IF k = 0 THEN 0 ELSE (Dot(u, M, j, k - 1) + u[k] * M[k][j]) % 2

\* row vector times matrix
VecMat(u, M) == [j \in 1..ncolsOf(M) |-> Dot(u, M, j, Len(u))]

MatMul(X, Y) == [i \in 1..Len(X) |-> VecMat(X[i], Y)]

is_zero(M) == \A i \in 1..Len(M) : \A j \in 1..Len(M[i]) : M[i][j] = 0

is_square(M) == nrowsOf(M) = ncolsOf(M)

\* M without row 1 and column j.
Minor(M, j) ==
    [i \in 1..(Len(M) - 1) |->
        [k \in 1..(Len(M) - 1) |-> IF k < j THEN M[i + 1][k] ELSE M[i + 1][k + 1]]]

RECURSIVE Det(_)
RECURSIVE DetSum(_, _)
\* determinant over GF(2), expanded along the first row
Det(M) == IF Len(M) = 1 THEN M[1][1] ELSE DetSum(M, Len(M))
DetSum(M, j) ==
    IF j = 0 THEN 0
    ELSE (DetSum(M, j - 1) + (IF M[1][j] = 1 THEN Det(Minor(M, j)) ELSE 0)) % 2

is_singular(M) == Det(M) = 0

SetMin(S) == CHOOSE x \in S : \A y \in S : x <= y

RECURSIVE Eliminate(_, _)
\* Gauss-Jordan elimination of the n x 2n matrix aug from column col on;
\* <<>> when a column has no pivot.
Eliminate(aug, col) ==
    LET n == Len(aug) IN
    IF col > n THEN aug
    ELSE LET pivots == {r \in col..n : aug[r][col] = 1} IN
         IF pivots = {} THEN <<>>
         ELSE LET p == SetMin(pivots)
                  swapped == [r \in 1..n |->
                                 IF r = col THEN aug[p]
                                 ELSE IF r = p THEN aug[col] ELSE aug[r]]
                  cleared == [r \in 1..n |->
                                 IF r # col /\ swapped[r][col] = 1
                                 THEN VecAdd(swapped[r], swapped[col])
                                 ELSE swapped[r]]
              IN Eliminate(cleared, col + 1)

\* Matrix.inverse(): the inverse, ZeroDivisionError for a singular matrix.
MatInverse(M) ==
    LET n == Len(M)
        I == identity_matrix(n)
        aug == [i \in 1..n |-> M[i] \o I[i]]
        red == Eliminate(aug, 1)
    IN IF red = <<>> THEN ZeroDivisionError
       ELSE [i \in 1..n |-> SubSeq(red[i], n + 1, 2 * n)]

RECURSIVE OrderFrom(_, _, _)
\* least k' >= k with M^k' = I, given P = M^k; M invertible
OrderFrom(M, P, k) ==
    IF P = identity_matrix(Len(M)) THEN Returned(k) ELSE OrderFrom(M, MatMul(P, M), k + 1)

\* Matrix.multiplicative_order(): the least k >= 1 with M^k = I;
\* ArithmeticError when M is not invertible.
multiplicative_order(M) ==
    IF is_singular(M) THEN ArithmeticError ELSE OrderFrom(M, M, 1)

\* vector.nonzero_positions(): the 0-based positions of the nonzero
\* entries, ascending.
RECURSIVE NonzeroUpTo(_, _)
NonzeroUpTo(v, k) ==
    IF k = 0 THEN <<>>
    ELSE IF v[k] # 0 THEN Append(NonzeroUpTo(v, k - 1), k - 1)
         ELSE NonzeroUpTo(v, k - 1)

nonzero_positions(v) == NonzeroUpTo(v, Len(v))

Elems(s) == {s[i] : i \in 1..Len(s)}

----------------------------------------------------------------------------
\* The CPM class, as values: a CPM is [nrows, ncols, Z].

\* CPM(m, Z) for Z a matrix over GF(2), as compose, inverse and __pow__
\* call it.
CPM(m, Z) ==
    IF m < 1 THEN ValueError
    ELSE IF ~is_square(Z) THEN TypeError
    ELSE [nrows |-> m, ncols |-> ncolsOf(Z), Z |-> Z]

IsCPM(x) == "nrows" \in DOMAIN x

nrows(t) == t.nrows
ncols(t) == t.ncols
parity_folding_matrix(t) == t.Z

RECURSIVE SumRows(_, _)
SumRows(M, k) == IF k = 1 THEN M[1] ELSE VecAdd(SumRows(M, k - 1), M[k])

\* sum(A): the sum of all rows of A (A has at least one row)
column_parity(M) == SumRows(M, nrowsOf(M))

expanded_column_parity(M) ==
    LET m == nrowsOf(M)
        row == column_parity(M)
    IN [i \in 1..m |-> row]

odd_columns(M) == nonzero_positions(column_parity(M))

\* [e for e in range(A.ncols()) if e not in odd_columns(A)]
RECURSIVE EvenUpTo(_, _)
EvenUpTo(M, k) ==
    IF k = 0 THEN <<>>
    ELSE IF (k - 1) \notin Elems(odd_columns(M))
         THEN Append(EvenUpTo(M, k - 1), k - 1)
         ELSE EvenUpTo(M, k - 1)

\* even_columns that stops one column early
even_columns_short(M) == EvenUpTo(M, ncolsOf(M) - 1)

even_columns(M) == EvenUpTo(M, ncolsOf(M))

effect(t, M) == VecMat(column_parity(M), parity_folding_matrix(t))

expanded_effect(t, M) == MatMul(expanded_column_parity(M), parity_folding_matrix(t))

\* __call__
apply(t, M) == MatAdd(M, expanded_effect(t, M))

\* compose with the product of the associated matrices taken for every m
compose_always_product(t, o) ==
    IF ~IsCPM(o) THEN TypeError
    ELSE IF nrows(t) # nrows(o) \/ ncols(t) # ncols(o) THEN ValueError
    ELSE LET m == nrows(t)
             I == identity_matrix(ncols(t))
         IN CPM(m, MatAdd(MatMul(MatAdd(parity_folding_matrix(t), I),
                                 MatAdd(parity_folding_matrix(o), I)), I))

\* compose with the sum of the folding matrices taken for every m
compose_always_sum(t, o) ==
    IF ~IsCPM(o) THEN TypeError
    ELSE IF nrows(t) # nrows(o) \/ ncols(t) # ncols(o) THEN ValueError
    ELSE CPM(nrows(t), MatAdd(parity_folding_matrix(t), parity_folding_matrix(o)))

compose(t, o) ==
    IF ~IsCPM(o) THEN TypeError
    ELSE IF nrows(t) # nrows(o) \/ ncols(t) # ncols(o) THEN ValueError
    ELSE LET m == nrows(t) IN
         IF is_even(m)
         THEN CPM(m, MatAdd(parity_folding_matrix(t), parity_folding_matrix(o)))
         ELSE LET I == identity_matrix(ncols(t)) IN
              CPM(m, MatAdd(MatMul(MatAdd(parity_folding_matrix(t), I),
                                   MatAdd(parity_folding_matrix(o), I)), I))

associated_matrix(t) == MatAdd(parity_folding_matrix(t), identity_matrix(ncols(t)))

order(t) ==
    LET m == nrows(t) IN
    IF is_even(m) THEN Returned(2) ELSE multiplicative_order(associated_matrix(t))

\* is_invertible that tests the folding matrix instead of the associated one
is_invertible_of_Z(t) ==
    LET m == nrows(t) IN is_even(m) \/ ~is_singular(parity_folding_matrix(t))

is_invertible(t) ==
    LET m == nrows(t) IN is_even(m) \/ ~is_singular(associated_matrix(t))

\* inverse that forgets to subtract the identity from the inverted matrix
inverse_keeps_identity(t) ==
    IF ~is_invertible(t) THEN ValueError
    ELSE LET m == nrows(t) IN
         IF is_even(m) THEN t
         ELSE CPM(m, MatInverse(associated_matrix(t)))

inverse(t) ==
    IF ~is_invertible(t) THEN ValueError
    ELSE LET m == nrows(t) IN
         IF is_even(m) THEN t
         ELSE CPM(m, MatSub(MatInverse(associated_matrix(t)), identity_matrix(ncols(t))))

is_equal(t, o) ==
    IF ~IsCPM(o) THEN TypeError
    ELSE nrows(t) = nrows(o) /\ parity_folding_matrix(t) = parity_folding_matrix(o)

is_identity(t) == is_zero(parity_folding_matrix(t))

is_involution(t) ==
    LET m == nrows(t) IN
    IF is_even(m) THEN TRUE ELSE is_identity(compose(t, t))

RECURSIVE PowLoop(_, _, _)
\* the loop of __pow__: k more rounds of theta = theta.compose(self)
PowLoop(t, acc, k) == IF k = 0 THEN acc ELSE PowLoop(t, compose(acc, t), k - 1)

RECURSIVE PowLoopSquaring(_, _)
PowLoopSquaring(acc, k) ==
    IF k = 0 THEN acc ELSE PowLoopSquaring(compose(acc, acc), k - 1)

\* __pow__ whose loop composes the accumulator with itself
pow_squaring(t, e) ==
    IF e < 1 THEN ValueError
    ELSE PowLoopSquaring(CPM(nrows(t), parity_folding_matrix(t)), e - 1)

\* __pow__
pow(t, e) ==
    IF e < 1 THEN ValueError
    ELSE PowLoop(t, CPM(nrows(t), parity_folding_matrix(t)), e - 1)

----------------------------------------------------------------------------
\* The algebra of one CPM: a caller holds theta = CPM(m, Z) and calls its
\* methods; call, arg and ret are the last call, its argument and what it
\* returned or raised.

Idle == heap = <<>> /\ callerZ = None /\ self = None

InitAlgebra ==
    /\ \E n \in 1..MaxN : \E m \in 1..MaxM : \E Z \in MatrixSpace(n, n) :
           theta = CPM(m, Z)
    /\ call = "__init__"
    /\ arg = None
    /\ ret = None
    /\ Idle

CallInverse ==
    /\ call' = "inverse"
    /\ arg' = None
    /\ ret' = inverse(theta)
    /\ UNCHANGED <<theta, heap, callerZ, self>>

CallOrder ==
    /\ call' = "order"
    /\ arg' = None
    /\ ret' = order(theta)
    /\ UNCHANGED <<theta, heap, callerZ, self>>

CallIsInvolution ==
    /\ call' = "is_involution"
    /\ arg' = None
    /\ ret' = is_involution(theta)
    /\ UNCHANGED <<theta, heap, callerZ, self>>

CallPow ==
    \E e \in 1..MaxE :
        /\ call' = "__pow__"
        /\ arg' = e
        /\ ret' = pow(theta, e)
        /\ UNCHANGED <<theta, heap, callerZ, self>>

NextAlgebra == CallInverse \/ CallOrder \/ CallIsInvolution \/ CallPow

SpecAlgebra == InitAlgebra /\ [][NextAlgebra]_vars

----------------------------------------------------------------------------
\* Claims about one CPM (SpecAlgebra).

\* C2: for an invertible CPM (even or odd m), theta.compose(theta.inverse())
\* is the identity CPM: its folding matrix is zero and its associated
\* matrix is I_n.
C2_ComposeWithInverseIsIdentity ==
    (call = "inverse" /\ is_invertible(theta)) =>
        /\ IsCPM(ret)
        /\ IsCPM(compose(theta, ret))
        /\ is_identity(compose(theta, ret))
        /\ associated_matrix(compose(theta, ret)) = identity_matrix(ncols(theta))

C2_Witness ==
    /\ call = "inverse"
    /\ IsCPM(ret)
    /\ is_odd(nrows(theta))
    /\ ncols(theta) >= 2
    /\ ~is_zero(parity_folding_matrix(theta))
    /\ ret # theta

\* C3 (as claimed): whenever order() returns k, theta.power(k) is the
\* identity and theta.power(j) is not the identity for 0 < j < k, for even m
\* (order 2, also when Z is zero) and for odd m.
C3_OrderIsLeastIdentityPower ==
    (call = "order" /\ ~Raised(ret)) =>
        /\ is_identity(pow(theta, ret.val))
        /\ \A j \in 1..(ret.val - 1) : ~is_identity(pow(theta, j))

\* C4: for even m theta.compose(theta) is the identity and is_involution()
\* is true; for odd m is_involution() is true exactly when
\* theta.compose(theta) has an all-zero folding matrix.
C4_Involution ==
    call = "is_involution" =>
        /\ is_even(nrows(theta)) =>
               (ret = TRUE /\ is_identity(compose(theta, theta)))
        /\ is_odd(nrows(theta)) =>
               (ret = TRUE <=> is_zero(parity_folding_matrix(compose(theta, theta))))

C4_Witness ==
    /\ call = "is_involution"
    /\ is_even(nrows(theta))
    /\ ncols(theta) >= 2
    /\ ~is_zero(MatMul(parity_folding_matrix(theta), parity_folding_matrix(theta)))
    /\ ret = TRUE

\* C5: when inverse() succeeds, its result is invertible and inverting it
\* again gives a CPM equal to theta (same m, same Z).
C5_InverseRoundTrip ==
    (call = "inverse" /\ IsCPM(ret)) =>
        /\ is_invertible(ret)
        /\ IsCPM(inverse(ret))
        /\ is_equal(inverse(ret), theta) = TRUE

C5_Witness ==
    /\ call = "inverse"
    /\ IsCPM(ret)
    /\ is_odd(nrows(theta))
    /\ ncols(theta) >= 2
    /\ parity_folding_matrix(ret) # parity_folding_matrix(theta)
    /\ associated_matrix(theta) # identity_matrix(ncols(theta))

\* C7: when order() returns k, theta.power(e + k) equals theta.power(e) for
\* every e >= 1, and theta.power(k + 1) equals theta.
C7_PowerPeriodic ==
    (call = "__pow__" /\ ~Raised(order(theta))) =>
        /\ IsCPM(ret)
        /\ is_equal(pow(theta, arg + order(theta).val), ret) = TRUE
        /\ is_equal(pow(theta, order(theta).val + 1), theta) = TRUE

C7_Witness ==
    /\ call = "__pow__"
    /\ arg >= 2
    /\ ~Raised(order(theta))
    /\ order(theta).val >= 3
    /\ ~is_identity(ret)

----------------------------------------------------------------------------
\* Composition against sequential application: theta.compose(other)
\* applied to a state matrix A of r rows (the doctest of compose). arg holds
\* the caller's other CPM and state matrix.

InitCompose ==
    /\ \E n \in 1..MaxN : \E m \in 1..MaxM :
       \E Z \in MatrixSpace(n, n) : \E Zp \in MatrixSpace(n, n) :
       \E r \in 1..MaxStateRows : \E A \in MatrixSpace(r, n) :
           /\ theta = CPM(m, Z)
           /\ arg = [other |-> CPM(m, Zp), A |-> A]
    /\ call = "__init__"
    /\ ret = None
    /\ Idle

\* alpha = theta.compose(other); alpha(A)
CallComposeApply ==
    LET alpha == compose(theta, arg.other) IN
    /\ call' = "compose.__call__"
    /\ ret' = apply(alpha, arg.A)
    /\ UNCHANGED <<theta, arg, heap, callerZ, self>>

NextCompose == CallComposeApply

SpecCompose == InitCompose /\ [][NextCompose]_vars

\* C1 (as claimed): for CPMs theta, theta' of the same (m, n) and every state
\* matrix A with n columns and any number of rows,
\* theta.compose(theta').apply(A) = theta'.apply(theta.apply(A)).
C1_ComposeIsSequentialAnyRows ==
    call = "compose.__call__" =>
        ret = apply(arg.other, apply(theta, arg.A))

\* C1 (amended): the same for every state matrix A with n columns whose
\* number of rows r >= 1 has the parity of m (in particular r = m).
C1_ComposeIsSequentialSameParity ==
    (call = "compose.__call__" /\ nrowsOf(arg.A) % 2 = nrows(theta) % 2) =>
        ret = apply(arg.other, apply(theta, arg.A))

C1_Witness ==
    /\ call = "compose.__call__"
    /\ nrowsOf(arg.A) % 2 = nrows(theta) % 2
    /\ nrowsOf(arg.A) # nrows(theta)
    /\ ncols(theta) >= 2
    /\ ret # arg.A
    /\ apply(theta, arg.A) # arg.A
    /\ ret # apply(theta, arg.A)
    /\ ret = apply(arg.other, apply(theta, arg.A))

----------------------------------------------------------------------------
\* The action of one CPM on its m x n states; arg is the state matrix A of
\* the call.

InitAction ==
    /\ \E n \in 1..MaxN : \E m \in 1..MaxRows : \E Z \in MatrixSpace(n, n) :
           theta = CPM(m, Z)
    /\ call = "__init__"
    /\ arg = None
    /\ ret = None
    /\ Idle

\* Each behaviour is one call on the freshly constructed CPM: the methods
\* are pure and theta is never changed, so earlier calls cannot matter.
CallIsInvertible ==
    /\ call = "__init__"
    /\ call' = "is_invertible"
    /\ ret' = is_invertible(theta)
    /\ UNCHANGED <<theta, arg, heap, callerZ, self>>

\* theta(A) for an m x n state matrix A
CallApply ==
    /\ call = "__init__"
    /\ \E A \in MatrixSpace(nrows(theta), ncols(theta)) :
           /\ arg' = A
           /\ ret' = apply(theta, A)
    /\ call' = "__call__"
    /\ UNCHANGED <<theta, heap, callerZ, self>>

NextAction == CallIsInvertible \/ CallApply

SpecAction == InitAction /\ [][NextAction]_vars

\* A -> t(A) is injective on the m x n matrices: as many images as matrices.
Injective(t) ==
    LET states == MatrixSpace(nrows(t), ncols(t)) IN
    Cardinality({apply(t, X) : X \in states}) = Cardinality(states)

\* C10: is_invertible() is true exactly when A -> theta(A) is injective on
\* the m x n matrices, and whenever inverse() succeeds
\* theta.inverse()(theta(A)) = A for every m x n matrix A.
C10_InvertibleIffInjective ==
    /\ call = "is_invertible" => (ret = TRUE <=> Injective(theta))
    /\ (call = "__call__" /\ IsCPM(inverse(theta))) =>
           apply(inverse(theta), ret) = arg

C10_Witness ==
    /\ call = "__call__"
    /\ IsCPM(inverse(theta))
    /\ is_odd(nrows(theta))
    /\ ncols(theta) >= 2
    /\ ret # arg
    /\ inverse(theta) # theta
    /\ apply(inverse(theta), ret) = arg

----------------------------------------------------------------------------
\* The column utilities on a caller's r x c matrix A (held in arg).

InitColumns ==
    /\ \E r \in 1..MaxStateRows : \E c \in 1..MaxCols : \E A \in MatrixSpace(r, c) :
           arg = A
    /\ theta = None
    /\ call = "start"
    /\ ret = None
    /\ Idle

CallOddColumns ==
    /\ call' = "odd_columns"
    /\ ret' = odd_columns(arg)
    /\ UNCHANGED <<theta, arg, heap, callerZ, self>>

CallEvenColumns ==
    /\ call' = "even_columns"
    /\ ret' = even_columns(arg)
    /\ UNCHANGED <<theta, arg, heap, callerZ, self>>

NextColumns == CallOddColumns \/ CallEvenColumns

SpecColumns == InitColumns /\ [][NextColumns]_vars

Ascending(s) == \A i \in 1..Len(s) : \A k \in 1..Len(s) : i < k => s[i] < s[k]

\* C8: odd_columns(A) and even_columns(A) partition [0, c): every index is
\* in exactly one of the two lists, odd_columns(A) is the set of j with
\* column_parity(A)[j] = 1, and both lists are ascending.
C8_ColumnsPartition ==
    /\ call = "odd_columns" =>
           /\ Elems(ret) = {j \in 0..(ncolsOf(arg) - 1) : column_parity(arg)[j + 1] = 1}
           /\ Ascending(ret)
    /\ call = "even_columns" =>
           /\ Ascending(ret)
           /\ Elems(ret) \cup Elems(odd_columns(arg)) = 0..(ncolsOf(arg) - 1)
           /\ Elems(ret) \cap Elems(odd_columns(arg)) = {}

C8_Witness ==
    /\ call = "even_columns"
    /\ nrowsOf(arg) >= 2
    /\ Len(ret) >= 2
    /\ Len(odd_columns(arg)) >= 1
    /\ ret[Len(ret)] = ncolsOf(arg) - 1

----------------------------------------------------------------------------
\* Construction, with the caller's objects on a heap: heap[id] is a nested
\* list or a matrix ([kind, ring, rows]); callerZ is the object the caller
\* passes as Z and keeps a reference to; arg is m; self is the constructed
\* CPM [_nrows, _ncols, _Z], whose _Z is a reference into the heap.

Entries == 0..MaxEntry

Rings == {"GF(2)", "ZZ"}

CallerObjects(n) ==
    {[kind |-> "list", ring |-> "int", rows |-> R] : R \in [1..n -> [1..n -> Entries]]}
    \cup {[kind |-> "matrix", ring |-> "ZZ", rows |-> R] : R \in [1..n -> [1..n -> Entries]]}
    \cup {[kind |-> "matrix", ring |-> "GF(2)", rows |-> R] : R \in MatrixSpace(n, n)}

InitCtor ==
    /\ \E n \in 1..MaxN : \E o \in CallerObjects(n) : heap = <<o>>
    /\ callerZ = 1
    /\ arg \in 0..MaxRows
    /\ self = None
    /\ theta = None
    /\ call = "start"
    /\ ret = None

\* Matrix(GF(2), Z) for a nested list Z: a new matrix, entries reduced mod 2
MatrixGF2(rows) ==
    [kind |-> "matrix", ring |-> "GF(2)",
     rows |-> [i \in 1..Len(rows) |-> [j \in 1..Len(rows[i]) |-> rows[i][j] % 2]]]

\* CPM.__init__(self, m, Z) with m = arg and Z = the object callerZ
Construct ==
    /\ call = "start"
    /\ call' = "__init__"
    /\ LET m == arg
           isList == heap[callerZ].kind = "list"
           heap2 == IF isList THEN Append(heap, MatrixGF2(heap[callerZ].rows)) ELSE heap
           Z == IF isList THEN Len(heap2) ELSE callerZ
       IN IF m < 1
          THEN ret' = ValueError /\ self' = None /\ heap' = heap
          ELSE IF heap2[Z].ring # "GF(2)"
          THEN ret' = ValueError /\ self' = None /\ heap' = heap
          ELSE IF ~is_square(heap2[Z].rows)
          THEN ret' = TypeError /\ self' = None /\ heap' = heap
          ELSE /\ ret' = None
               /\ self' = [_nrows |-> m, _ncols |-> ncolsOf(heap2[Z].rows), _Z |-> Z]
               /\ heap' = heap2
    /\ UNCHANGED <<theta, arg, callerZ>>

\* After a successful construction the caller writes v into entry (i, j) of
\* the object it passed: Z[i][j] = v on a list, Z[i, j] = v on a matrix.
CallerMutatesZ ==
    /\ call # "start"
    /\ self # None
    /\ \E i \in 1..Len(heap[callerZ].rows) : \E j \in 1..Len(heap[callerZ].rows) :
       \E v \in Entries :
           LET w == IF heap[callerZ].ring = "GF(2)" THEN v % 2 ELSE v IN
           heap' = [heap EXCEPT ![callerZ].rows[i][j] = w]
    /\ call' = "caller_mutates_Z"
    /\ UNCHANGED <<theta, arg, ret, callerZ, self>>

NextCtor == Construct \/ CallerMutatesZ

SpecCtor == InitCtor /\ [][NextCtor]_vars

\* parity_folding_matrix() of the constructed CPM: the matrix self._Z refers to
stored_Z(h, cpm) == h[cpm._Z].rows

NonBinary(rows) ==
    \E i \in 1..Len(rows) : \E j \in 1..Len(rows[i]) : rows[i][j] \notin {0, 1}

\* C6 (as claimed): CPM(m, Z) with m >= 1 raises ValueError and produces no
\* CPM whenever some entry of Z is not 0 or 1, for Z a matrix and for Z a
\* nested list of integers.
C6_NonBinaryRejected ==
    (call = "__init__" /\ arg >= 1 /\ NonBinary(heap[callerZ].rows)) =>
        (ret = ValueError /\ self = None)

\* C9 (as claimed): once constructed, the CPM's parity_folding_matrix() is
\* not changed by any later mutation of the Z object the caller passed.
C9_StoredByValue ==
    [][(self # None /\ self' # None) => stored_Z(heap', self') = stored_Z(heap, self)]_vars

====
